---------------------------- MODULE Spec2Model ----------------------------
(***************************************************************************)
(* Keyboard event logger (src/App.tsx, src/unnamed/part_000).              *)
(*                                                                         *)
(* The App component keeps three pieces of React state: the event log      *)
(* `events` (newest first, at most 100 entries), the filter flags          *)
(* `filters` and the transient `isCopied` flag.  Around it live the clock  *)
(* (Date.now / new Date), the clipboard writes in flight (promises of      *)
(* navigator.clipboard.writeText) and the pending setTimeout callbacks.    *)
(*                                                                         *)
(* Every handler is one action.  React flushes the state updates of a      *)
(* handler before the next handler runs, so a handler's setState calls     *)
(* and the re-render that recomputes filteredEvents are part of its step.  *)
(***************************************************************************)
EXTENDS Integers, Sequences, FiniteSets, TLC

\* ------------------------------------------------------------- bounds

\* Key events handled in the small specification.
MaxKeys == 2
\* Clock advances the small specification may take with no timer pending.
MaxTicks == 1
\* Clipboard writes issued in the small specification.
MaxWrites == 2
\* Distinct values of the fractional part Math.random() adds to an id.
RandRes == 2
\* Key events of the long scripted stream (capacity specification).
MaxStream == 102
\* Key events of the scripted stream delivered before the user acts.
CapWarmup == 98
\* Clipboard writes issued in the capacity and handler specifications.
CapWrites == 1
\* Key events handled in the format specification.
MaxFmtKeys == 1
\* App instances mounted in the lifecycle specification
MaxMounts == 3
\* updates queued before a render in the batching specification
MaxPending == 3

\* -------------------------------------------------- program constants

\* slice(0, 100)
MaxEvents == 100
\* setTimeout(..., 2000)
ResetDelay == 2000
\* padStart(3, '0') of the milliseconds
MsWidth == 3
\* event.type.padEnd(8)
TypeWidth == 8
\* keyString.padEnd(10)
KeyWidth == 10
\* event.code.padEnd(10)
CodeWidth == 10
\* String(event.keyCode).padEnd(5)
KeyCodeWidth == 5

\* ---------------------------------------------------------------- types

\* enum KeyEventType
KeyDown == "keydown"
KeyUp == "keyup"
KeyPress == "keypress"
KeyEventType == {KeyDown, KeyUp, KeyPress}

\* The raw KeyboardEvents the window delivers: one per kind, with different
\* keys and modifier sets (the second is the space key).
RawSeq ==
    << [type |-> KeyDown, key |-> "a", code |-> "KeyA", which |-> 65,
        keyCode |-> 65, altKey |-> FALSE, ctrlKey |-> FALSE,
        metaKey |-> FALSE, shiftKey |-> FALSE],
       [type |-> KeyUp, key |-> " ", code |-> "Space", which |-> 32,
        keyCode |-> 32, altKey |-> FALSE, ctrlKey |-> TRUE,
        metaKey |-> FALSE, shiftKey |-> TRUE],
       [type |-> KeyPress, key |-> "A", code |-> "KeyA", which |-> 65,
        keyCode |-> 65, altKey |-> TRUE, ctrlKey |-> FALSE,
        metaKey |-> TRUE, shiftKey |-> TRUE] >>

RawEvents == {RawSeq[i] : i \in 1..Len(RawSeq)}

\* The n-th event (from 0) of the scripted stream: the kinds cycle.
StreamEvent(n) == RawSeq[(n % Len(RawSeq)) + 1]

\* Values Math.random() contributes to an id once added to Date.now().
Rand == 0..(RandRes - 1)

\* Steps by which the clock advances: one millisecond, or the reset delay.
TickSteps == {1, ResetDelay}

VARIABLES
    events,      \* useState<CapturedEvent[]>: the log, newest first
    filters,     \* useState<Record<KeyEventType, boolean>>
    isCopied,    \* useState(false)
    now,         \* the clock, in milliseconds
    nTicks,      \* clock advances taken (bounds the small specification)
    writes,      \* texts of the clipboard writes not yet settled
    timers,      \* deadlines of the pending setTimeout callbacks
    nWrites,     \* calls of navigator.clipboard.writeText so far
    created,     \* history: every CapturedEvent ever created, oldest first
    cleared,     \* history: Len(created) when the log was last emptied
    mounted,     \* the App component is mounted
    instance,    \* number of the App instance that was mounted last
    listeners,   \* the window's event listener list, in registration order
    pending,     \* updates queued on the events state since the last render
    seqLog       \* history: the log with every update applied on delivery

\* The subscription of the component and the update queue of its log.
subscription == <<mounted, instance, listeners>>
batch == <<pending, seqLog>>

vars == <<events, filters, isCopied, now, nTicks, writes, timers, nWrites,
          created, cleared, subscription, batch>>

\* ------------------------------------------------------------- helpers

Min(a, b) == IF a <= b THEN a ELSE b

Range(s) == {s[i] : i \in 1..Len(s)}

\* Array.prototype.reverse
Reverse(s) == [i \in 1..Len(s) |-> s[Len(s) + 1 - i]]

\* Array.prototype.slice(a, b) for 0 <= a <= b
Slice(s, a, b) == SubSeq(s, a + 1, Min(b, Len(s)))

RECURSIVE Repeat(_, _)
Repeat(ch, n) == IF n <= 0 THEN "" ELSE ch \o Repeat(ch, n - 1)

\* String.prototype.padEnd(n): spaces appended up to length n, never cut
PadEnd(s, n) == s \o Repeat(" ", n - Len(s))

\* String.prototype.padStart(n, ch)
PadStart(s, n, ch) == Repeat(ch, n - Len(s)) \o s

\* Array.prototype.join(sep): the elements lo..hi of lines with sep between
\* neighbours (computed by halves, which keeps the evaluation shallow).
RECURSIVE JoinRange(_, _, _, _)
JoinRange(lines, sep, lo, hi) ==
    IF lo > hi THEN ""
    ELSE IF lo = hi THEN lines[lo]
    ELSE LET mid == (lo + hi) \div 2
         IN  JoinRange(lines, sep, lo, mid) \o sep
             \o JoinRange(lines, sep, mid + 1, hi)

Join(lines, sep) == JoinRange(lines, sep, 1, Len(lines))

\* ------------------------------------------------- the pure functions

\* The CapturedEvent handleKeyEvent builds from raw event e, Math.random()
\* value r and clock reading t.  The id is Date.now() + Math.random(): the
\* integer millisecond plus one of RandRes fractions.
NewEvent(e, r, t) ==
    [id |-> t * RandRes + r,
     timestamp |-> t,
     type |-> e.type,
     key |-> e.key,
     code |-> e.code,
     which |-> e.which,
     keyCode |-> e.keyCode,
     altKey |-> e.altKey,
     ctrlKey |-> e.ctrlKey,
     metaKey |-> e.metaKey,
     shiftKey |-> e.shiftKey]

\* Insert with the bound off by one: slice(0, 101).
InsertOffByOne(prevEvents, newEvent) ==
    Slice(<<newEvent>> \o prevEvents, 0, MaxEvents + 1)

\* Insert that refuses the new event once the log is full.
InsertDropNewest(prevEvents, newEvent) ==
    IF Len(prevEvents) >= MaxEvents THEN prevEvents
    ELSE <<newEvent>> \o prevEvents

\* prevEvents => [newEvent, ...prevEvents].slice(0, 100)
Insert(prevEvents, newEvent) == Slice(<<newEvent>> \o prevEvents, 0, MaxEvents)

\* Toggle as a radio button: the other kinds are switched back on.
ToggleExclusive(prev, type) ==
    [k \in DOMAIN prev |-> IF k = type THEN ~prev[k] ELSE TRUE]

\* prev => ({ ...prev, [type]: !prev[type] })
Toggle(prev, type) == [prev EXCEPT ![type] = ~prev[type]]

\* The view handed over oldest first.
VisibleOldestFirst(evs, flt) ==
    Reverse(SelectSeq(evs, LAMBDA e : e.type \in DOMAIN flt /\ flt[e.type]))

\* events.filter(e => filters[e.type]): a type that is no key of filters
\* reads undefined, which is falsy.
Visible(evs, flt) ==
    SelectSeq(evs, LAMBDA e : e.type \in DOMAIN flt /\ flt[e.type])

\* const filteredEvents = useMemo(...): the view of the current render
filteredEvents == Visible(events, filters)

\* toLocaleTimeString('en-US', {hour12: false, 2-digit h/m/s}) of a clock
\* reading in milliseconds since local midnight, then "." and the
\* milliseconds padded to three digits.
FormatTime(t) ==
    PadStart(ToString((t \div 3600000) % 24), 2, "0") \o ":"
    \o PadStart(ToString((t \div 60000) % 60), 2, "0") \o ":"
    \o PadStart(ToString((t \div 1000) % 60), 2, "0") \o "."
    \o PadStart(ToString(t % 1000), MsWidth, "0")

\* The modifiers pushed in the order of the CapturedEvent fields: Alt, Ctrl,
\* Meta, Shift.
ModifiersFieldOrder(event) ==
    (IF event.altKey THEN <<"Alt">> ELSE <<>>)
    \o (IF event.ctrlKey THEN <<"Ctrl">> ELSE <<>>)
    \o (IF event.metaKey THEN <<"Meta">> ELSE <<>>)
    \o (IF event.shiftKey THEN <<"Shift">> ELSE <<>>)

\* The modifiers array of one event: Alt, Ctrl, Shift, Meta, pushed in turn.
Modifiers(event) ==
    (IF event.altKey THEN <<"Alt">> ELSE <<>>)
    \o (IF event.ctrlKey THEN <<"Ctrl">> ELSE <<>>)
    \o (IF event.shiftKey THEN <<"Shift">> ELSE <<>>)
    \o (IF event.metaKey THEN <<"Meta">> ELSE <<>>)

\* The key written as it is, the space key too.
KeyStringUnquoted(event) == event.key

\* event.key === ' ' ? `'${event.key}'` : event.key
KeyString(event) == IF event.key = " " THEN "'" \o event.key \o "'" ELSE event.key

\* The line copyLog's map callback returns for one event.
FormatLine(event) ==
    LET line == "[" \o FormatTime(event.timestamp) \o "] "
                \o PadEnd(event.type, TypeWidth)
                \o " | key: " \o PadEnd(KeyString(event), KeyWidth)
                \o " | code: " \o PadEnd(event.code, CodeWidth)
                \o " | keyCode: " \o PadEnd(ToString(event.keyCode), KeyCodeWidth)
    IN  IF Len(Modifiers(event)) > 0
        THEN line \o " | modifiers: " \o Join(Modifiers(event), ", ")
        ELSE line

\* The export without the reverse: newest first.
LogTextNewestFirst(visible) ==
    Join([i \in 1..Len(visible) |-> FormatLine(visible[i])], "\n")

\* filteredEvents.map(...).reverse().join('\n')
LogText(visible) ==
    Join(Reverse([i \in 1..Len(visible) |-> FormatLine(visible[i])]), "\n")

\* The guard without the debounce on isCopied.
CopyIgnoredOnEmptyOnly == Len(filteredEvents) = 0

\* copyLog's guard: if (filteredEvents.length === 0 || isCopied) return;
CopyIgnored == Len(filteredEvents) = 0 \/ isCopied

\* window.addEventListener(type, callback): a listener already registered
\* with the same type and callback is not registered again.
AddEventListener(ls, type, callback) ==
    LET l == [type |-> type, callback |-> callback] IN
    IF \E i \in 1..Len(ls) : ls[i] = l THEN ls ELSE Append(ls, l)

\* window.removeEventListener(type, callback)
RemoveEventListener(ls, type, callback) ==
    SelectSeq(ls, LAMBDA l : l # [type |-> type, callback |-> callback])

\* The effect of useEffect: handleKeyEvent is registered for the three
\* kinds.  useCallback(..., []) gives each App instance one handleKeyEvent
\* for its whole life, so the callback is named by its instance.
Subscribe(ls, callback) ==
    AddEventListener(
        AddEventListener(
            AddEventListener(ls, KeyDown, callback),
            KeyUp, callback),
        KeyPress, callback)

\* A cleanup that forgets the keypress listener.
UnsubscribeForgetsKeyPress(ls, callback) ==
    RemoveEventListener(
        RemoveEventListener(ls, KeyDown, callback),
        KeyUp, callback)

\* The cleanup the effect returns.
Unsubscribe(ls, callback) ==
    RemoveEventListener(
        RemoveEventListener(
            RemoveEventListener(ls, KeyDown, callback),
            KeyUp, callback),
        KeyPress, callback)

\* An insertion computed from the log of the last render, queued as a value.
KeyUpdateStale(newEvent) ==
    [updater |-> FALSE, value |-> Insert(events, newEvent)]

\* The update handleKeyEvent queues: the updater function
\* prevEvents => [newEvent, ...prevEvents].slice(0, 100).
KeyUpdate(newEvent) == [updater |-> TRUE, value |-> newEvent]

\* The update clearLog queues: the value [].
ClearUpdate == [updater |-> FALSE, value |-> <<>>]

\* One queued update applied to the state before it: an updater function is
\* called with that state, a value replaces it.
ApplyUpdate(update, prev) ==
    IF update.updater THEN Insert(prev, update.value) ELSE update.value

\* The queue processed by a render, in the order the updates were queued.
RECURSIVE ApplyUpdates(_, _)
ApplyUpdates(queue, prev) ==
    IF queue = <<>>
    THEN prev
    ELSE ApplyUpdates(Tail(queue), ApplyUpdate(Head(queue), prev))

\* ------------------------------------------------------------- actions

Init ==
    /\ events = <<>>
    /\ filters = [k \in KeyEventType |-> TRUE]
    /\ isCopied = FALSE
    /\ now = 0
    /\ nTicks = 0
    /\ writes = <<>>
    /\ timers = <<>>
    /\ nWrites = 0
    /\ created = <<>>
    /\ cleared = 0
    /\ mounted = TRUE
    /\ instance = 1
    /\ listeners = Subscribe(<<>>, 1)
    /\ pending = <<>>
    /\ seqLog = <<>>

\* handleKeyEvent(e), with r the value Math.random() returns
HandleKeyEvent(e, r) ==
    LET newEvent == NewEvent(e, r, now) IN
    /\ events' = Insert(events, newEvent)
    /\ created' = Append(created, newEvent)
    /\ UNCHANGED <<filters, isCopied, now, nTicks, writes, timers, nWrites,
                   cleared,
                   subscription, batch>>

\* toggleFilter(type)
ToggleFilter(type) ==
    /\ filters' = Toggle(filters, type)
    /\ UNCHANGED <<events, isCopied, now, nTicks, writes, timers, nWrites,
                   created, cleared,
                   subscription, batch>>

\* clearLog that drops the newest event only.
ClearLogNewestOnly ==
    /\ events' = IF events = <<>> THEN <<>> ELSE Tail(events)
    /\ cleared' = Len(created)
    /\ UNCHANGED <<filters, isCopied, now, nTicks, writes, timers, nWrites,
                   created,
                   subscription, batch>>

\* clearLog()
ClearLog ==
    /\ events' = <<>>
    /\ cleared' = Len(created)
    /\ UNCHANGED <<filters, isCopied, now, nTicks, writes, timers, nWrites,
                   created,
                   subscription, batch>>

\* copyLog that reports success at once, before the write has settled.
CopyLogOptimistic ==
    IF CopyIgnored
    THEN UNCHANGED vars
    ELSE /\ writes' = Append(writes, LogText(filteredEvents))
         /\ nWrites' = nWrites + 1
         /\ isCopied' = TRUE
         /\ timers' = Append(timers, now + ResetDelay)
         /\ UNCHANGED <<events, filters, now, nTicks, created, cleared,
                        subscription, batch>>

\* copyLog whose reverse() is applied to the log itself.
CopyLogReversing ==
    IF CopyIgnored
    THEN UNCHANGED vars
    ELSE /\ writes' = Append(writes, LogText(filteredEvents))
         /\ nWrites' = nWrites + 1
         /\ events' = Reverse(events)
         /\ UNCHANGED <<filters, isCopied, now, nTicks, timers, created,
                        cleared,
                        subscription, batch>>

\* copyLog(): nothing when the guard returns early, else the text of the
\* visible events is handed to navigator.clipboard.writeText, whose promise
\* stays pending.
CopyLog ==
    IF CopyIgnored
    THEN UNCHANGED vars
    ELSE /\ writes' = Append(writes, LogText(filteredEvents))
         /\ nWrites' = nWrites + 1
         /\ UNCHANGED <<events, filters, isCopied, now, nTicks, timers,
                        created, cleared,
                        subscription, batch>>

\* The i-th pending write resolves: the then-callback sets isCopied and
\* starts the reset timer.
WriteResolved(i) ==
    /\ i \in 1..Len(writes)
    /\ writes' = SubSeq(writes, 1, i - 1) \o SubSeq(writes, i + 1, Len(writes))
    /\ isCopied' = TRUE
    /\ timers' = Append(timers, now + ResetDelay)
    /\ UNCHANGED <<events, filters, now, nTicks, nWrites, created, cleared,
                   subscription, batch>>

\* The i-th pending write rejects: there is no rejection handler.
WriteRejected(i) ==
    /\ i \in 1..Len(writes)
    /\ writes' = SubSeq(writes, 1, i - 1) \o SubSeq(writes, i + 1, Len(writes))
    /\ UNCHANGED <<events, filters, isCopied, now, nTicks, timers, nWrites,
                   created, cleared,
                   subscription, batch>>

\* A reset callback that leaves the flag as it is.
TimerFiredNoReset ==
    /\ timers # <<>>
    /\ Head(timers) <= now
    /\ timers' = Tail(timers)
    /\ UNCHANGED <<events, filters, isCopied, now, nTicks, writes, nWrites,
                   created, cleared,
                   subscription, batch>>

\* The oldest pending timer is due and runs () => setIsCopied(false).
TimerFired ==
    /\ timers # <<>>
    /\ Head(timers) <= now
    /\ timers' = Tail(timers)
    /\ isCopied' = FALSE
    /\ UNCHANGED <<events, filters, now, nTicks, writes, nWrites, created,
                   cleared,
                   subscription, batch>>

\* The clock advances by d milliseconds, stopping at the deadline of the
\* oldest pending timer: a due timer runs before time moves on.
Tick(d) ==
    /\ timers # <<>> => now < Head(timers)
    /\ now' = IF timers # <<>> THEN Min(now + d, Head(timers)) ELSE now + d
    /\ nTicks' = Min(nTicks + 1, MaxTicks)
    /\ UNCHANGED <<events, filters, isCopied, writes, timers, nWrites,
                   created, cleared,
                   subscription, batch>>

\* The handlers of the listeners k.. of the window run on raw event e, in
\* registration order, rs[k] being the value Math.random() returns to the
\* k-th.  An update by the handler of an instance that is no longer mounted
\* is dropped.
RECURSIVE Deliver(_, _, _, _, _)
Deliver(k, e, rs, evs, made) ==
    IF k > Len(listeners)
    THEN [events |-> evs, created |-> made]
    ELSE IF listeners[k].type # e.type
    THEN Deliver(k + 1, e, rs, evs, made)
    ELSE LET newEvent == NewEvent(e, rs[k], now) IN
         Deliver(k + 1, e, rs,
                 IF mounted /\ listeners[k].callback = instance
                 THEN Insert(evs, newEvent)
                 ELSE evs,
                 Append(made, newEvent))

\* The browser dispatches raw event e to the window.
Dispatch(e, rs) ==
    LET after == Deliver(1, e, rs, events, created) IN
    /\ events' = after.events
    /\ created' = after.created
    /\ UNCHANGED <<filters, isCopied, now, nTicks, writes, timers, nWrites,
                   cleared, subscription, batch>>

\* A new App instance is mounted: its state is the initial state of the
\* hooks and its effect subscribes its handleKeyEvent.
Mount ==
    /\ ~mounted
    /\ mounted' = TRUE
    /\ instance' = instance + 1
    /\ listeners' = Subscribe(listeners, instance + 1)
    /\ events' = <<>>
    /\ filters' = [k \in KeyEventType |-> TRUE]
    /\ isCopied' = FALSE
    /\ cleared' = Len(created)
    /\ UNCHANGED <<now, nTicks, writes, timers, nWrites, created, batch>>

\* The mounted instance is unmounted: the cleanup of its effect runs.
Unmount ==
    /\ mounted
    /\ mounted' = FALSE
    /\ listeners' = Unsubscribe(listeners, instance)
    /\ UNCHANGED <<events, filters, isCopied, now, nTicks, writes, timers,
                   nWrites, created, cleared, instance, batch>>

\* handleKeyEvent(e) before the next render: the update is queued.
QueueKeyEvent(e, r) ==
    LET newEvent == NewEvent(e, r, now) IN
    /\ pending' = Append(pending, KeyUpdate(newEvent))
    /\ seqLog' = Insert(seqLog, newEvent)
    /\ created' = Append(created, newEvent)
    /\ UNCHANGED <<events, filters, isCopied, now, nTicks, writes, timers,
                   nWrites, cleared, subscription>>

\* clearLog() before the next render: the update is queued.
QueueClearLog ==
    /\ pending' = Append(pending, ClearUpdate)
    /\ seqLog' = <<>>
    /\ cleared' = Len(created)
    /\ UNCHANGED <<events, filters, isCopied, now, nTicks, writes, timers,
                   nWrites, created, subscription>>

\* The component re-renders: useState processes the queued updates.
Render ==
    /\ events' = ApplyUpdates(pending, events)
    /\ pending' = <<>>
    /\ UNCHANGED <<filters, isCopied, now, nTicks, writes, timers, nWrites,
                   created, cleared, subscription, seqLog>>

\* ------------------------------------------------------ specifications

\* The clock of the small specification: MaxTicks free advances, and it
\* always runs on to the next deadline while a timer is pending.
ClockStep ==
    \E d \in TickSteps :
       /\ nTicks < MaxTicks \/ (timers # <<>> /\ d = ResetDelay)
       /\ Tick(d)

\* Small specification: every input free, a few of each.
Next ==
    \/ /\ Len(created) < MaxKeys
       /\ \E e \in RawEvents, r \in Rand : HandleKeyEvent(e, r)
    \/ \E type \in KeyEventType : ToggleFilter(type)
    \/ ClearLog
    \/ /\ nWrites < MaxWrites \/ CopyIgnored
       /\ CopyLog
    \/ \E i \in 1..Len(writes) : WriteResolved(i)
    \/ \E i \in 1..Len(writes) : WriteRejected(i)
    \/ TimerFired
    \/ ClockStep

Spec == Init /\ [][Next]_vars

\* The same, with the scheduling the browser guarantees: the clock keeps
\* running while a timer is pending, and a due timer callback is run.  No
\* fairness is assumed of the user or of the clipboard.
SpecLive == Spec /\ WF_vars(ClockStep) /\ WF_vars(TimerFired)

\* Capacity specification: a scripted stream of MaxStream key events, at
\* most one per millisecond and with the kinds cycling, long enough to fill
\* the log and overflow it.  The filters may be toggled at any time; once
\* CapWarmup events have been delivered the user may also clear and copy.
StreamReady ==
    IF created = <<>> THEN TRUE ELSE created[Len(created)].timestamp < now

Warm == Len(created) >= CapWarmup

CapNext ==
    \/ /\ Len(created) < MaxStream
       /\ StreamReady
       /\ HandleKeyEvent(StreamEvent(Len(created)), Len(created) % RandRes)
    \/ /\ Len(created) < MaxStream
       /\ ~StreamReady
       /\ Tick(1)
    \/ \E type \in KeyEventType : ToggleFilter(type)
    \/ /\ Warm
       /\ ClearLog
    \/ /\ Warm
       /\ nWrites < CapWrites \/ CopyIgnored
       /\ CopyLog
    \/ \E i \in 1..Len(writes) : WriteResolved(i)
    \/ \E i \in 1..Len(writes) : WriteRejected(i)
    \/ TimerFired
    \/ /\ timers # <<>>
       /\ Tick(ResetDelay)

SpecCap == Init /\ [][CapNext]_vars

\* Handler specification: handleKeyEvent taken as the function it is, of any
\* KeyboardEvent, among them one whose type is none of the three kinds.
ForeignEvent ==
    [type |-> "keyrepeat", key |-> "b", code |-> "KeyB", which |-> 66,
     keyCode |-> 66, altKey |-> FALSE, ctrlKey |-> FALSE,
     metaKey |-> FALSE, shiftKey |-> FALSE]

RawNext ==
    \/ /\ Len(created) < MaxKeys
       /\ \E e \in RawEvents \cup {ForeignEvent}, r \in Rand :
             HandleKeyEvent(e, r)
    \/ \E type \in KeyEventType : ToggleFilter(type)
    \/ ClearLog
    \/ /\ nWrites < CapWrites \/ CopyIgnored
       /\ CopyLog
    \/ \E i \in 1..Len(writes) : WriteResolved(i)
    \/ \E i \in 1..Len(writes) : WriteRejected(i)
    \/ TimerFired
    \/ ClockStep

SpecRaw == Init /\ [][RawNext]_vars

\* Format specification: one key event drawn from a wide set of raw events
\* (each kind; a letter, the space key, the separator character and a key
\* name longer than its column; an empty and an over-long code; two key
\* codes; all sixteen modifier sets), then its export.
FmtKeyValues == {"a", " ", "|", "AudioVolumeDown"}

FmtCodeValues == {"KeyA", "", "AudioVolumeDown"}

FmtKeyCodes == {65, 229}

FmtRawEvents ==
    [type : KeyEventType, key : FmtKeyValues, code : FmtCodeValues,
     which : {0}, keyCode : FmtKeyCodes, altKey : BOOLEAN,
     ctrlKey : BOOLEAN, metaKey : BOOLEAN, shiftKey : BOOLEAN]

FmtNext ==
    \/ /\ Len(created) < MaxFmtKeys
       /\ \E e \in FmtRawEvents : HandleKeyEvent(e, 0)
    \/ /\ nWrites < CapWrites \/ CopyIgnored
       /\ CopyLog
    \/ \E i \in 1..Len(writes) : WriteResolved(i)
    \/ \E i \in 1..Len(writes) : WriteRejected(i)
    \/ TimerFired
    \/ /\ timers # <<>>
       /\ Tick(ResetDelay)

SpecFmt == Init /\ [][FmtNext]_vars


\* Lifecycle specification: the component is mounted and unmounted again
\* and again while raw events arrive, also when nothing is mounted.
MountNext ==
    \/ /\ instance < MaxMounts
       /\ Mount
    \/ Unmount
    \/ /\ Len(created) < MaxKeys
       /\ \E e \in RawEvents, rs \in [1..Len(listeners) -> Rand] :
             Dispatch(e, rs)
    \/ /\ mounted
       /\ \E type \in KeyEventType : ToggleFilter(type)
    \/ /\ mounted
       /\ ClearLog

SpecMount == Init /\ [][MountNext]_vars

\* Batching specification: key events and clearLog calls are handled while
\* the render that processes their updates is still to come.
BatchNext ==
    \/ /\ Len(created) < MaxKeys
       /\ Len(pending) < MaxPending
       /\ \E e \in RawEvents, r \in Rand : QueueKeyEvent(e, r)
    \/ /\ Len(pending) < MaxPending
       /\ QueueClearLog
    \/ Render
    \/ /\ nTicks < MaxTicks
       /\ Tick(1)

SpecBatch == Init /\ [][BatchNext]_vars

\* -------------------------------------------------------------- claims

\* The events captured since the last clearLog, oldest first.
SinceClear == SubSeq(created, cleared + 1, Len(created))

\* The lines of a text: String.prototype.split('\n').
Lines(text) ==
    LET nl == {i \in 1..Len(text) : SubSeq(text, i, i) = "\n"}
        cnt == Cardinality(nl)
        pos(k) == IF k = 0 THEN 0
                  ELSE IF k = cnt + 1 THEN Len(text) + 1
                  ELSE CHOOSE q \in nl : Cardinality({x \in nl : x < q}) = k - 1
    IN  [k \in 1..(cnt + 1) |-> SubSeq(text, pos(k - 1) + 1, pos(k) - 1)]

\* C1: in every reachable state the event log holds at most 100 events.
C1_LogBounded == Len(events) <= MaxEvents

\* The log is full and more than 100 events arrived since the last clear.
C1_Witness == Len(events) = MaxEvents /\ Len(SinceClear) > MaxEvents

\* C2: once more than 100 events were captured with no clearLog between
\* them, the log is exactly the 100 most recent ones, newest first, and no
\* event that was evicted (or cleared) is in the log in any state.
C2_NewestHundred ==
    LET since == SinceClear
        n == Len(since)
    IN  /\ n > MaxEvents =>
              events = [j \in 1..MaxEvents |-> since[n + 1 - j]]
        /\ \A i \in 1..Len(created) :
              (i <= cleared \/ i <= Len(created) - MaxEvents)
                 => created[i] \notin Range(events)

\* At least two events have been evicted by the bound.
C2_Witness ==
    /\ Len(SinceClear) > MaxEvents + 1
    /\ events[1] = created[Len(created)]
    /\ events[MaxEvents] = created[Len(created) - MaxEvents + 1]

\* C3: no two events ever created by handleKeyEvent have equal ids, whether
\* captured in the same millisecond, evicted, or created after a clearLog.
C3_IdsUnique ==
    \A i, j \in 1..Len(created) : i # j => created[i].id # created[j].id

\* C4: a clearLog step empties the log, and an empty log stays empty in
\* every step that handles no key event.
C4_EmptyUntilNextKey ==
    [][/\ ClearLog => events' = <<>>
       /\ (events = <<>> /\ created' = created) => events' = <<>>]_vars

\* A cleared log that has seen a toggle, a settled write and a reset since.
C4_Witness ==
    /\ events = <<>>
    /\ cleared > 0
    /\ \E k \in KeyEventType : ~filters[k]
    /\ nWrites > 0
    /\ writes = <<>>
    /\ ~isCopied
    /\ now >= ResetDelay

\* C5: the visible view is the subsequence of the log, in the log's order,
\* of exactly the events whose kind is flagged; it is no longer than the
\* log, empty when no kind is flagged and the whole log when all are.
C5_VisibleIsSubsequence ==
    LET n == Len(events)
        m == Len(filteredEvents)
    IN  /\ m <= n
        /\ \E idx \in [1..m -> 1..n] :
              /\ \A i \in 1..m : filteredEvents[i] = events[idx[i]]
              /\ \A i, j \in 1..m : i < j => idx[i] < idx[j]
              /\ {idx[i] : i \in 1..m} = {q \in 1..n : filters[events[q].type]}
        /\ (\A k \in KeyEventType : ~filters[k]) => filteredEvents = <<>>
        /\ (\A k \in KeyEventType : filters[k]) => filteredEvents = events

\* A log of two different events of which the view shows the older one only.
C5_Witness ==
    /\ Len(events) = 2
    /\ events[1].type # events[2].type
    /\ filteredEvents = <<events[2]>>

\* C6: a toggleFilter step flips the flag of its kind and leaves the two
\* other flags and the log as they were; a key event enters the log at the
\* head whatever the flags say.
C6_ToggleFlipsOneFlag ==
    [][/\ \A type \in KeyEventType :
             ToggleFilter(type) =>
                /\ filters'[type] = ~filters[type]
                /\ \A k \in KeyEventType \ {type} : filters'[k] = filters[k]
                /\ events' = events
       /\ created' # created =>
             /\ events' # <<>>
             /\ events'[1] = created'[Len(created')]
             /\ filters' = filters]_vars

\* Two kinds are switched off and the newest event in the log is of one
\* of them.
C6_Witness ==
    /\ Cardinality({k \in KeyEventType : ~filters[k]}) = 2
    /\ events # <<>>
    /\ ~filters[events[1].type]
    /\ filteredEvents = <<>>

\* C7: the text a copyLog step hands to the clipboard has one line per
\* visible event, the k-th line being that of the k-th oldest visible event.
C7_ExportChronological ==
    [][nWrites' # nWrites =>
          LET lines == Lines(writes'[Len(writes')])
              m == Len(filteredEvents)
          IN  /\ Len(lines) = m
              /\ \A k \in 1..m : lines[k] = FormatLine(filteredEvents[m + 1 - k])]_vars

\* A pending write of two different lines, taken from a log of two events.
C7_Witness ==
    /\ writes # <<>>
    /\ Len(Lines(writes[1])) = 2
    /\ Lines(writes[1])[1] # Lines(writes[1])[2]

\* C8: from a state in which isCopied is set or nothing is visible, no step
\* issues a clipboard write, and a copyLog step changes nothing at all.
C8_GuardedCopyIgnored ==
    [][(isCopied \/ Len(filteredEvents) = 0) =>
          /\ nWrites' = nWrites
          /\ CopyLog => UNCHANGED vars]_vars

\* The copied state is active while events are visible and a further write
\* is within the bounds: an export attempt here is one the guard refuses.
C8_Witness == isCopied /\ Len(filteredEvents) > 0 /\ nWrites < MaxWrites

\* C9: whenever isCopied is true it later becomes false, by the clock and
\* the reset timer alone.
C9_CopiedEventuallyResets == isCopied ~> ~isCopied

\* The copied state is active and the user has gone on typing.
C9_Witness == isCopied /\ events # <<>> /\ events[1].timestamp > 0

\* C10: isCopied turns true only in the step in which a pending write
\* resolves, and a rejected write leaves isCopied, the timers, the log and
\* the filters as they were.
C10_CopiedOnlyAfterResolve ==
    [][/\ (~isCopied /\ isCopied') => \E i \in 1..Len(writes) : WriteResolved(i)
       /\ (\E i \in 1..Len(writes) : WriteRejected(i)) =>
             UNCHANGED <<isCopied, timers, events, filters>>]_vars

\* A write was issued and has settled, yet no timer was ever started: the
\* write was rejected.
C10_Witness ==
    /\ nWrites > 0
    /\ writes = <<>>
    /\ timers = <<>>
    /\ ~isCopied
    /\ now < ResetDelay

Occ(s, pat) ==
    {i \in 1..(Len(s) - Len(pat) + 1) : SubSeq(s, i, i + Len(pat) - 1) = pat}

First(S) == CHOOSE i \in S : \A j \in S : i <= j

Last(S) == CHOOSE i \in S : \A j \in S : j <= i

\* s without the spaces padEnd appended.
TrimEnd(s) ==
    LET solid == {i \in 1..Len(s) : SubSeq(s, i, i) # " "}
    IN  IF solid = {} THEN "" ELSE SubSeq(s, 1, Last(solid))

\* The names of the modifiers that are active in ev, in the order Alt,
\* Ctrl, Shift, Meta, separated by a comma and a space.
ModifierListing(ev) ==
    LET names == <<"Alt", "Ctrl", "Shift", "Meta">>
        flags == <<ev.altKey, ev.ctrlKey, ev.shiftKey, ev.metaKey>>
        active == SelectSeq(<<1, 2, 3, 4>>, LAMBDA i : flags[i])
    IN  Join([i \in 1..Len(active) |-> names[active[i]]], ", ")

\* The line carries the modifiers segment ev calls for, at its end and
\* nowhere else, or none at all.
ModifierSegmentOf(line, ev) ==
    LET segment == " | modifiers: " \o ModifierListing(ev)
    IN  IF ModifierListing(ev) = ""
        THEN Occ(line, "modifiers") = {}
        ELSE /\ Occ(line, "modifiers") = {Len(line) - Len(segment) + 4}
             /\ SubSeq(line, Len(line) - Len(segment) + 1, Len(line)) = segment

\* The kind, key, code and keyCode columns read back from a line: the
\* columns lie between the markers, padding is cut, the quoted space is
\* unquoted.
ParseLine(line) ==
    LET mods == Occ(line, " | modifiers: ")
        stop == IF mods = {} THEN Len(line) ELSE Last(mods) - 1
        body == SubSeq(line, 1, stop)
        kc == Last(Occ(body, " | keyCode: "))
        cd == Last(Occ(SubSeq(body, 1, kc - 1), " | code: "))
        ky == First(Occ(body, " | key: "))
        tm == First(Occ(body, "] "))
        keyField == TrimEnd(SubSeq(body, ky + 8, cd - 1))
    IN  [type |-> TrimEnd(SubSeq(body, tm + 2, ky - 1)),
         key |-> IF keyField = "' '" THEN " " ELSE keyField,
         code |-> TrimEnd(SubSeq(body, cd + 9, kc - 1)),
         keyCode |-> TrimEnd(SubSeq(body, kc + 12, stop))]

\* C13: in the text a copyLog step hands over, the line of every event ends
\* with the modifiers segment listing exactly its active modifiers in the
\* order Alt, Ctrl, Shift, Meta, and has no such segment when none is active.
C13_ModifiersSegment ==
    [][nWrites' # nWrites =>
          LET lines == Lines(writes'[Len(writes')])
              m == Len(filteredEvents)
          IN  /\ Len(lines) = m
              /\ \A k \in 1..m :
                    ModifierSegmentOf(lines[k], filteredEvents[m + 1 - k])]_vars

\* A pending export of an event with Ctrl and Meta held, Alt and Shift not.
C13_Witness ==
    /\ writes # <<>>
    /\ created # <<>>
    /\ ~created[1].altKey /\ created[1].ctrlKey
    /\ ~created[1].shiftKey /\ created[1].metaKey
    /\ writes[1] = FormatLine(created[1])

\* C14: reading the kind, key, code and keyCode columns back from the line
\* of an event gives the event's own values.
C14_RoundTrip ==
    [][nWrites' # nWrites =>
          LET lines == Lines(writes'[Len(writes')])
              m == Len(filteredEvents)
          IN  /\ Len(lines) = m
              /\ \A k \in 1..m :
                    LET ev == filteredEvents[m + 1 - k]
                    IN  ParseLine(lines[k]) =
                           [type |-> ev.type, key |-> ev.key, code |-> ev.code,
                            keyCode |-> ToString(ev.keyCode)]]_vars

\* A pending export of the space key with an over-long code and modifiers.
C14_Witness ==
    /\ writes # <<>>
    /\ created # <<>>
    /\ created[1].key = " "
    /\ Len(created[1].code) > CodeWidth
    /\ created[1].shiftKey
    /\ writes[1] = FormatLine(created[1])

\* C15: a step of an export (a write issued, resolved or rejected, a reset
\* timer started or fired, isCopied changed) leaves the log and the three
\* filter flags as they were.
C15_ExportLeavesLogAndFilters ==
    [][(\/ nWrites' # nWrites
        \/ writes' # writes
        \/ timers' # timers
        \/ isCopied' # isCopied) => UNCHANGED <<events, filters>>]_vars

\* An export has run to its end (the clock has gone on to a reset deadline)
\* over a log of two events captured a tick apart, with a kind switched
\* off, and the log is still newest first.
C15_Witness ==
    /\ nWrites > 0
    /\ writes = <<>>
    /\ timers = <<>>
    /\ now >= ResetDelay
    /\ Len(events) = 2
    /\ events[2].timestamp < events[1].timestamp
    /\ events[1].timestamp < ResetDelay
    /\ nTicks = 1
    /\ \E k \in KeyEventType : ~filters[k]

\* C17: isCopied turns false only once the reset delay has passed since the
\* latest successful write set it (the deadline of the timer started last).
C17_FullDelay ==
    [][(isCopied /\ ~isCopied') => now >= timers[Len(timers)]]_vars

\* C18: at most one export is in progress: never two unsettled writes, two
\* pending reset timers, or an unsettled write beside a pending timer.
C18_OneExportInProgress == Len(writes) + Len(timers) <= 1


\* Registrations of any callback for one kind of event on the window.
Registrations(type) == {i \in 1..Len(listeners) : listeners[i].type = type}

\* C12: across mount/unmount cycles, while the component is mounted the
\* window holds exactly one registration for each of keydown, keyup and
\* keypress, and it is the mounted instance's handleKeyEvent; after unmount
\* it holds none; and one raw event creates at most one CapturedEvent and
\* adds at most one entry to the log.
C12_SubscribedOncePerActivation ==
    /\ [](\A type \in KeyEventType :
             Cardinality(Registrations(type)) = IF mounted THEN 1 ELSE 0)
    /\ [](\A i \in 1..Len(listeners) : listeners[i].callback = instance)
    /\ [][/\ Len(created') <= Len(created) + 1
          /\ Len(events') <= Len(events) + 1]_vars

\* A second instance is mounted after the first was unmounted, and its log
\* holds the second of two key events handled so far.
C12_Witness ==
    /\ mounted
    /\ instance = 2
    /\ Len(created) = 2
    /\ cleared = 1
    /\ Len(events) = 1
    /\ events[1] = created[2]

\* C16: whatever key events and clearLog calls were handled since the last
\* render, the log the next render shows is the log obtained by applying
\* each of them when it was delivered; with nothing queued the rendered log
\* is that log.
C16_BatchedAsDelivered ==
    /\ ApplyUpdates(pending, events) = seqLog
    /\ pending = <<>> => events = seqLog

\* A key event, a clearLog and another key event are handled, in this
\* order, with no render between them.
C16_Witness ==
    /\ Len(pending) = 3
    /\ pending[1].updater
    /\ ~pending[2].updater
    /\ pending[3].updater
    /\ seqLog # <<>>

=============================================================================
